---- MODULE Spec2Model ----
(***************************************************************************)
(* Memory & History subsystem of genai-chatbot/chatbot.py:                 *)
(*   - normalize_key, the Key Normalizer                                   *)
(*   - MemoryStore (remember / recall / list_facts) over data/memory.json, *)
(*     guarded by _LOCK                                                    *)
(*   - the event log logs/conversations.jsonl (log_event, read_history,    *)
(*     clear_history)                                                      *)
(*   - the /chat handler that composes them.                               *)
(* Strings are sequences of one-character strings.  Request handlers run   *)
(* on threads; every step that touches shared state (the lock, the cache,  *)
(* a file) is one action, so that all interleavings are explored.          *)
(***************************************************************************)
EXTENDS Integers, Sequences, FiniteSets, TLC

VARIABLES
    pc,        \* pc[t]: position of thread t inside the handler it runs
    loc,       \* loc[t]: the local variables of thread t
    lock,      \* holder of _LOCK, or NoThread
    cache,     \* MemoryStore._cache: user_id -> (key_n -> value)
    file,      \* content of data/memory.json
    hist,      \* history variable: remember calls in the order they updated the cache
    log,       \* logs/conversations.jsonl: whether it exists, and its lines
    clock,     \* the clock log_event reads
    nclear,    \* number of /clear requests so far
    owed,      \* history variable: the events compaction scoping obliges the log to hold
    nk_in,     \* input of the normalize_key experiment
    nk_out,    \* results of applying normalize_key once, twice
    inbox      \* the messages /chat requests carry

vars == <<pc, loc, lock, cache, file, hist, log, clock, nclear, owed, nk_in, nk_out, inbox>>

storeVars == <<lock, cache, file, hist>>
logVars == <<log, clock, nclear, owed>>
normVars == <<nk_in, nk_out>>
envVars == <<inbox>>

-----------------------------------------------------------------------------
(* Bounds of the model *)

MaxKeyLen == 3          \* longest input string tried on normalize_key
MaxRemembers == 2       \* remember calls per behaviour
MaxLogWrites == 2       \* log_event calls and /clear requests per behaviour

Threads == {"t1", "t2"}
Users == {"u1", "u2"}
NoThread == "none"

\* Python's None, and an exception that leaves a function
None == <<"<None>">>
ValueError == <<"<ValueError>">>

-----------------------------------------------------------------------------
(* Characters and the string methods the code uses *)

lowerSeq == <<"a","b","c","d","e","f","g","h","i","j","k","l","m",
              "n","o","p","q","r","s","t","u","v","w","x","y","z">>
upperSeq == <<"A","B","C","D","E","F","G","H","I","J","K","L","M",
              "N","O","P","Q","R","S","T","U","V","W","X","Y","Z">>
Digits == {"0","1","2","3","4","5","6","7","8","9"}

Range(s) == {s[i] : i \in DOMAIN s}

\* \s of the re module / the characters str.strip() removes
IsSpace(c) == c \in {" ", "\t", "\n", "\r"}

\* \w of the re module
IsWord(c) == c \in Range(lowerSeq) \cup Range(upperSeq) \cup Digits \cup {"_"}

LowerChar(c) ==
    IF \E i \in DOMAIN upperSeq : upperSeq[i] = c
    THEN lowerSeq[CHOOSE i \in DOMAIN upperSeq : upperSeq[i] = c]
    ELSE c

\* str.lower()
lower(s) == [i \in 1..Len(s) |-> LowerChar(s[i])]

SetMin(S) == CHOOSE x \in S : \A y \in S : x <= y
SetMax(S) == CHOOSE x \in S : \A y \in S : x >= y

\* str.strip()
strip(s) ==
    LET keep == {i \in 1..Len(s) : ~IsSpace(s[i])}
    IN  IF keep = {} THEN <<>> ELSE SubSeq(s, SetMin(keep), SetMax(keep))

\* (x or "")
OrEmpty(x) == IF x = None THEN <<>> ELSE x

KeyChar(c) == IsWord(c) \/ IsSpace(c) \/ c = "-"

\* re.sub(r"[^\w\s-]", "", s)
re_sub_nonkey(s) == SelectSeq(s, KeyChar)

normalize_key_nolower(k) == re_sub_nonkey(strip(OrEmpty(k)))

normalize_key(k) == re_sub_nonkey(lower(strip(OrEmpty(k))))

-----------------------------------------------------------------------------
(* The intent classifier: REMEMBER_RE and RECALL_RE matched as re.match does, *)
(* with re.I.  A match is the first one the backtracking search finds: a      *)
(* greedy \s+ gives up whitespace last, a lazy (.+?) takes the fewest         *)
(* characters first.                                                          *)

\* the literal w at position i of l
Lit(l, i, w) ==
    /\ i >= 1 /\ i + Len(w) - 1 <= Len(l)
    /\ \A j \in 1..Len(w) : l[i + j - 1] = w[j]

\* the position a greedy \s* started at i stops at
SkipWs(s, i) ==
    LET stops == {j \in i..Len(s) : ~IsSpace(s[j])}
    IN  IF stops = {} THEN Len(s) + 1 ELSE SetMin(stops)

SpaceAt(s, i) == i >= 1 /\ i <= Len(s) /\ IsSpace(s[i])

AllSpace(s, i, j) == \A n \in i..j : IsSpace(s[n])

\* "." matches every character but the newline
NoNewline(s, i, j) == \A n \in i..j : s[n] # "\n"

\* the position after word and \s+ when l has them at i, else 0
AfterWord(l, i, word) ==
    IF Lit(l, i, word) /\ SpaceAt(l, i + Len(word)) THEN SkipWs(l, i + Len(word)) ELSE 0

\* ^\s*(?:please\s+)?(?:remember\s+(?:that\s+)?)?  : the position of "my"
RememberPrefixEnd(l) ==
    LET p0 == SkipWs(l, 1)
        a  == AfterWord(l, p0, <<"p","l","e","a","s","e">>)
        p1 == IF a # 0 THEN a ELSE p0
        b  == AfterWord(l, p1, <<"r","e","m","e","m","b","e","r">>)
        c  == IF b # 0 THEN AfterWord(l, b, <<"t","h","a","t">>) ELSE 0
    IN  IF b = 0 THEN p1 ELSE IF c # 0 THEN c ELSE b

\* (?:is|=) at q: its length, 0 when neither is there
SepAt(l, q) == IF Lit(l, q, <<"i","s">>) THEN 2 ELSE IF Lit(l, q, <<"=">>) THEN 1 ELSE 0

\* all <<ks, ke, vs, ve>> with group 1 = s[ks..ke] and group 2 = s[vs..ve]
RememberMatches(s) ==
    LET l == lower(s)
        n == Len(s)
        p == RememberPrefixEnd(l)
    IN  IF ~(Lit(l, p, <<"m","y">>) /\ SpaceAt(s, p + 2)) THEN {}
        ELSE UNION {
               UNION {
                 LET q == SkipWs(s, ke + 1)
                     after == q + SepAt(l, q)
                 IN  UNION {
                       {<<ks, ke, vs, ve>> : ve \in {e \in vs..n : NoNewline(s, vs, e) /\ AllSpace(s, e + 1, n)}}
                       : vs \in {x \in (after + 1)..SkipWs(s, after) : x <= n}}
                 : ke \in {e \in ks..(n - 1) :
                            /\ NoNewline(s, ks, e) /\ SpaceAt(s, e + 1)
                            /\ SepAt(l, SkipWs(s, e + 1)) > 0
                            /\ SpaceAt(s, SkipWs(s, e + 1) + SepAt(l, SkipWs(s, e + 1)))}}
               : ks \in {x \in (p + 3)..SkipWs(s, p + 2) : x <= n}}

\* the search order, were the key group greedy
EarlierLongestKey(m1, m2) ==
    \/ m1[1] > m2[1]
    \/ m1[1] = m2[1] /\ m1[2] > m2[2]
    \/ m1[1] = m2[1] /\ m1[2] = m2[2] /\ m1[3] > m2[3]
    \/ m1[1] = m2[1] /\ m1[2] = m2[2] /\ m1[3] = m2[3] /\ m1[4] <= m2[4]

\* the order in which the search reaches the matches
Earlier(m1, m2) ==
    \/ m1[1] > m2[1]
    \/ m1[1] = m2[1] /\ m1[2] < m2[2]
    \/ m1[1] = m2[1] /\ m1[2] = m2[2] /\ m1[3] > m2[3]
    \/ m1[1] = m2[1] /\ m1[2] = m2[2] /\ m1[3] = m2[3] /\ m1[4] <= m2[4]

FirstMatch(M) == CHOOSE m \in M : \A other \in M : Earlier(m, other)

\* (m.group(1), m.group(2)) if m else None
try_parse_remember(text) ==
    LET s == OrEmpty(text)
        M == RememberMatches(s)
    IN  IF M = {} THEN None
        ELSE LET m == FirstMatch(M) IN <<SubSeq(s, m[1], m[2]), SubSeq(s, m[3], m[4])>>

\* \s*\??\s*$ from position i on
RecallTail(s, i) ==
    LET j == SkipWs(s, i)
    IN  j > Len(s) \/ (s[j] = "?" /\ AllSpace(s, j + 1, Len(s)))

\* all <<ks, ke, 0, 0>> with group 1 = s[ks..ke]
RecallMatches(s) ==
    LET l == lower(s)
        n == Len(s)
        p0 == SkipWs(s, 1)
        a == p0 + 4
        b == IF SpaceAt(s, a) /\ Lit(l, SkipWs(s, a), <<"i","s">>) THEN SkipWs(s, a) + 2
             ELSE IF Lit(l, a, <<"'","s">>) THEN a + 2
             ELSE 0
        c == SkipWs(s, b)
    IN  IF ~(/\ Lit(l, p0, <<"w","h","a","t">>) \/ Lit(l, p0, <<"w","h","e","n">>)
             /\ b # 0 /\ SpaceAt(s, b)
             /\ Lit(l, c, <<"m","y">>) /\ SpaceAt(s, c + 2))
        THEN {}
        ELSE UNION {
               {<<ks, ke, 0, 0>> : ke \in {e \in ks..n : NoNewline(s, ks, e) /\ RecallTail(s, e + 1)}}
               : ks \in {x \in (c + 3)..SkipWs(s, c + 2) : x <= n}}

\* m.group(1) if m else None
try_parse_recall(text) ==
    LET s == OrEmpty(text)
        M == RecallMatches(s)
    IN  IF M = {} THEN None
        ELSE LET m == FirstMatch(M) IN SubSeq(s, m[1], m[2])

-----------------------------------------------------------------------------
(* The JSON fact store *)

EmptyDict == [x \in {} |-> <<>>]

\* d[k] = v on a dict
DictSet(d, k, v) == [x \in DOMAIN d \cup {k} |-> IF x = k THEN v ELSE d[x]]

\* d.get(k, default)
DictGet(d, k, default) == IF k \in DOMAIN d THEN d[k] ELSE default

\* json.dumps of the store / json.loads of a file content
json_dumps(obj) == [kind |-> "json", obj |-> obj]

MissingFile == [kind |-> "missing"]
EmptyFile == [kind |-> "empty"]
CorruptFile == [kind |-> "corrupt"]

JSONDecodeError == <<"<JSONDecodeError>">>

\* _load_all, were it to let the parse error of a corrupt file through
_load_all_no_except(f) ==
    IF f.kind = "json" THEN f.obj
    ELSE IF f.kind = "missing" THEN EmptyDict
    ELSE JSONDecodeError

_load_all(f) == IF f.kind = "json" THEN f.obj ELSE EmptyDict

\* user_mem = self._cache.setdefault(user_id, {}); user_mem[key_n] = value.strip()
StoreFirstWriteWins(c, u, key_n, value) ==
    LET um == DictGet(c, u, EmptyDict)
    IN  DictSet(c, u, IF key_n \in DOMAIN um THEN um
                      ELSE DictSet(um, key_n, strip(OrEmpty(value))))

StoreAllUsers(c, u, key_n, value) ==
    [x \in DOMAIN c \cup {u} |->
        DictSet(DictGet(c, x, EmptyDict), key_n, strip(OrEmpty(value)))]

StoreFact(c, u, key_n, value) ==
    DictSet(c, u, DictSet(DictGet(c, u, EmptyDict), key_n, strip(OrEmpty(value))))

\* self._cache.get(user_id, {}).get(key_n)
LookupFact(c, u, key_n) == DictGet(DictGet(c, u, EmptyDict), key_n, None)

\* dict(self._cache.get(user_id, {}))
CopyFacts(c, u) == DictGet(c, u, EmptyDict)

\* with _LOCK: a thread enters only when no thread holds the lock
AcquireNoLock == TRUE

CanAcquire == lock = NoThread

-----------------------------------------------------------------------------
(* The event log file *)

MissingLog == [exists |-> FALSE, lines |-> <<>>]
LogOf(lines) == [exists |-> TRUE, lines |-> lines]

RoleLen(role) == CASE role = "user" -> 4 [] role = "assistant" -> 9 [] OTHER -> 6

\* a line json.loads turns into an event object; size is its length in bytes:
\* {"user_id": "<36 characters>", "role": "..", "message": "..", "ts": "<27 characters>"}\n
EventLine(u, role, message, ts) ==
    [kind |-> "rec", user_id |-> u, role |-> role, message |-> message, ts |-> ts,
     size |-> 116 + RoleLen(role) + Len(message)]

\* a line of size bytes that json.loads rejects with JSONDecodeError
JunkLine(ts, size) ==
    [kind |-> "junk", user_id |-> "none", role |-> "none", message |-> <<>>, ts |-> ts,
     size |-> size]

RECURSIVE Bytes(_)
Bytes(lines) == IF lines = <<>> THEN 0 ELSE Head(lines).size + Bytes(Tail(lines))

\* what a file holding lines has from byte offset off on: whole lines, after
\* the tail of the line off falls into (a piece of a line is no JSON text)
RECURSIVE FromOffset(_, _)
FromOffset(lines, off) ==
    IF lines = <<>> THEN <<>>
    ELSE IF off = 0 THEN lines
    ELSE IF off >= Head(lines).size THEN FromOffset(Tail(lines), off - Head(lines).size)
    ELSE <<JunkLine(Head(lines).ts, Head(lines).size - off)>> \o Tail(lines)

NoLine == JunkLine(0, 0)

-----------------------------------------------------------------------------
(* Thread-local state *)

InitLoc == [op |-> "none", user |-> "none", key |-> <<>>, value |-> <<>>,
            key_n |-> <<>>, text |-> EmptyFile, result |-> None, ret |-> "idle",
            ev |-> NoLine, limit |-> 0, items |-> <<>>, pos |-> 0, kept |-> <<>>,
            exp |-> <<>>, ov |-> "none",
            msg |-> <<>>, bot |-> <<>>, sent |-> <<>>, branch |-> "none",
            raw |-> <<>>, llm |-> None, facts |-> EmptyDict]

Goto(t, label) == pc' = [pc EXCEPT ![t] = label]
SetLoc(t, l) == loc' = [loc EXCEPT ![t] = l]

\* the operation of thread t returns value: to the handler that called it, or
\* to the caller of the thread, which is then free for the next request
Return(t, value) ==
    /\ Goto(t, loc[t].ret)
    /\ SetLoc(t, IF loc[t].ret = "idle" THEN InitLoc
                 ELSE [loc[t] EXCEPT !.result = value, !.ov = "none", !.text = InitLoc.text])

\* raw keys and values the callers pass to the store
StoreKeys == {<<"A">>, <<" ", "a">>, <<"!", " ", "b">>}
StoreValues == {<<"x">>, <<"y", " ">>}

-----------------------------------------------------------------------------
(* MemoryStore.remember *)

remember_call(t) ==
    /\ pc[t] = "idle"
    /\ Len(hist) + Cardinality({x \in Threads : pc[x] \in {"rem_lock", "rem_update"}}) < MaxRemembers
    /\ \E u \in Users, k \in StoreKeys, v \in StoreValues :
          SetLoc(t, [InitLoc EXCEPT !.op = "remember", !.user = u, !.key = k,
                                    !.value = v, !.key_n = normalize_key(k)])
    /\ Goto(t, "rem_lock")
    /\ UNCHANGED <<storeVars, logVars, normVars, envVars>>

remember_lock(t) ==
    /\ pc[t] = "rem_lock"
    /\ CanAcquire
    /\ lock' = t
    /\ Goto(t, "rem_update")
    /\ UNCHANGED <<loc, cache, file, hist, logVars, normVars, envVars>>

remember_update(t) ==
    /\ pc[t] = "rem_update"
    /\ cache' = StoreFact(cache, loc[t].user, loc[t].key_n, loc[t].value)
    /\ hist' = Append(hist, <<loc[t].user, loc[t].key, loc[t].value>>)
    /\ Goto(t, "save_open")
    /\ UNCHANGED <<loc, lock, file, logVars, normVars, envVars>>

\* _save_all, were it to write the facts of the calling user only
save_open_one_user(t) ==
    /\ pc[t] = "save_open"
    /\ SetLoc(t, [loc[t] EXCEPT !.text =
                     json_dumps([u \in {loc[t].user} |-> CopyFacts(cache, u)])])
    /\ file' = EmptyFile
    /\ Goto(t, "save_write")
    /\ UNCHANGED <<lock, cache, hist, logVars, normVars, envVars>>

\* _save_all: json.dumps(obj) is evaluated, then write_text opens the file
\* for writing, which truncates it
save_open(t) ==
    /\ pc[t] = "save_open"
    /\ SetLoc(t, [loc[t] EXCEPT !.text = json_dumps(cache)])
    /\ file' = EmptyFile
    /\ Goto(t, "save_write")
    /\ UNCHANGED <<lock, cache, hist, logVars, normVars, envVars>>

\* remember, were it to acquire the lock and return without releasing it
save_write_keeps_lock(t) ==
    /\ pc[t] = "save_write"
    /\ file' = loc[t].text
    /\ Return(t, None)
    /\ UNCHANGED <<lock, cache, hist, logVars, normVars, envVars>>

\* write_text writes the text and closes the file; _save_all returns, the with
\* block ends and releases the lock, remember returns None
save_write(t) ==
    /\ pc[t] = "save_write"
    /\ file' = loc[t].text
    /\ lock' = IF lock = t THEN NoThread ELSE lock
    /\ Return(t, None)
    /\ UNCHANGED <<cache, hist, logVars, normVars, envVars>>

-----------------------------------------------------------------------------
(* MemoryStore.recall *)

recall_call(t) ==
    /\ pc[t] = "idle"
    /\ \E u \in Users, k \in StoreKeys :
          SetLoc(t, [InitLoc EXCEPT !.op = "recall", !.user = u, !.key = k,
                                    !.key_n = normalize_key(k)])
    /\ Goto(t, "rec_lock")
    /\ UNCHANGED <<storeVars, logVars, normVars, envVars>>

recall_lock(t) ==
    /\ pc[t] = "rec_lock"
    /\ CanAcquire
    /\ lock' = t
    /\ Goto(t, "rec_get")
    /\ UNCHANGED <<loc, cache, file, hist, logVars, normVars, envVars>>

\* recall, were it to look the key up as the caller wrote it
recall_get_raw_key(t) ==
    /\ pc[t] = "rec_get"
    /\ SetLoc(t, [loc[t] EXCEPT !.result = LookupFact(cache, loc[t].user, loc[t].key)])
    /\ Goto(t, "rec_unlock")
    /\ UNCHANGED <<storeVars, logVars, normVars, envVars>>

\* the return value is computed inside the with block
recall_get(t) ==
    /\ pc[t] = "rec_get"
    /\ SetLoc(t, [loc[t] EXCEPT !.result = LookupFact(cache, loc[t].user, loc[t].key_n)])
    /\ Goto(t, "rec_unlock")
    /\ UNCHANGED <<storeVars, logVars, normVars, envVars>>

\* leaving the with block releases the lock; recall returns the value
recall_unlock(t) ==
    /\ pc[t] = "rec_unlock"
    /\ lock' = IF lock = t THEN NoThread ELSE lock
    /\ Return(t, loc[t].result)
    /\ UNCHANGED <<cache, file, hist, logVars, normVars, envVars>>

-----------------------------------------------------------------------------
(* MemoryStore.list_facts *)

list_facts_call(t) ==
    /\ pc[t] = "idle"
    /\ \E u \in Users : SetLoc(t, [InitLoc EXCEPT !.op = "list_facts", !.user = u])
    /\ Goto(t, "lf_lock")
    /\ UNCHANGED <<storeVars, logVars, normVars, envVars>>

list_facts_lock(t) ==
    /\ pc[t] = "lf_lock"
    /\ CanAcquire
    /\ lock' = t
    /\ Goto(t, "lf_copy")
    /\ UNCHANGED <<loc, cache, file, hist, logVars, normVars, envVars>>

list_facts_copy(t) ==
    /\ pc[t] = "lf_copy"
    /\ SetLoc(t, [loc[t] EXCEPT !.facts = CopyFacts(cache, loc[t].user)])
    /\ Goto(t, "lf_unlock")
    /\ UNCHANGED <<storeVars, logVars, normVars, envVars>>

\* leaving the with block releases the lock; list_facts returns the copy,
\* which the caller has in facts
list_facts_unlock(t) ==
    /\ pc[t] = "lf_unlock"
    /\ lock' = IF lock = t THEN NoThread ELSE lock
    /\ Return(t, InitLoc.result)
    /\ UNCHANGED <<cache, file, hist, logVars, normVars, envVars>>

-----------------------------------------------------------------------------
(* What the specification expects of a window and of a compaction, stated  *)
(* on the log as a whole                                                     *)

IsTurnOf(line, u) == line.kind = "rec" /\ line.user_id = u /\ line.role \in {"user", "assistant"}

TurnsOf(lines, u) ==
    LET turn(line) == IsTurnOf(line, u)
        sel == SelectSeq(lines, turn)
    IN  [k \in 1..Len(sel) |->
            [role |-> sel[k].role, message |-> sel[k].message, ts |-> sel[k].ts]]

\* the last min(limit, n) of the n turns of u, oldest first
Window(lines, u, limit) ==
    LET turns == TurnsOf(lines, u)
        n == Len(turns)
        m == IF limit < n THEN limit ELSE n
    IN  IF m <= 0 THEN <<>> ELSE SubSeq(turns, n - m + 1, n)

\* the lines that are not an event of u, in their order
WithoutUser(lines, u) ==
    LET other(line) == ~(line.kind = "rec" /\ line.user_id = u)
    IN  SelectSeq(lines, other)

-----------------------------------------------------------------------------
(* Which operations on the log ran while another was in progress.  ov of a   *)
(* running operation is "none" when it started with no other log operation   *)
(* in progress and none has started since, "clears" when only /clear         *)
(* requests of other users have started since, else "other".                 *)

LogPcs == {"log_write", "rh_exists", "rh_read", "cl_exists", "cl_read", "cl_write"}

LogRunning(x) == pc[x] \in LogPcs

OvMax(a, b) ==
    IF a = "other" \/ b = "other" THEN "other"
    ELSE IF a = "clears" \/ b = "clears" THEN "clears"
    ELSE "none"

\* how an operation op of user u looks to an operation of user me
OvOf(op, u, me) == IF op = "clear_history" /\ u # me THEN "clears" ELSE "other"

\* thread t starts the log operation op for user u with locals l
BeginLogOp(t, l, op, u) ==
    loc' = [x \in Threads |->
              IF x = t
              THEN [l EXCEPT !.ov = IF op # "log_event" /\ \E y \in Threads \ {t} : LogRunning(y)
                                    THEN "other" ELSE "none"]
              ELSE IF LogRunning(x) /\ pc[x] # "log_write"
                   THEN [loc[x] EXCEPT !.ov = OvMax(@, OvOf(op, u, loc[x].user))]
                   ELSE loc[x]]

ClearRunning(u) ==
    \E x \in Threads : pc[x] \in {"cl_exists", "cl_read", "cl_write"} /\ loc[x].user = u

Events(lines) == {lines[i] : i \in {j \in DOMAIN lines : lines[j].kind = "rec"}}

-----------------------------------------------------------------------------
(* log_event *)

LogMessages == {<<"h", "i">>}
Roles == {"user", "assistant"}

\* event = dict(event); event["ts"] = utcnow()
log_event_call(t) ==
    /\ pc[t] = "idle"
    /\ clock + nclear < MaxLogWrites
    /\ \E u \in Users, r \in Roles, m \in LogMessages :
          BeginLogOp(t, [InitLoc EXCEPT !.op = "log_event", !.user = u,
                                        !.ev = EventLine(u, r, m, clock + 1)],
                     "log_event", u)
    /\ clock' = clock + 1
    /\ Goto(t, "log_write")
    /\ UNCHANGED <<storeVars, log, nclear, owed, normVars, envVars>>

\* open(STRUCT_LOG, "a") creates the file when it is missing; the line is
\* written at the end of the file
log_write(t) ==
    /\ pc[t] = "log_write"
    /\ log' = LogOf(Append(log.lines, loc[t].ev))
    /\ owed' = IF ClearRunning(loc[t].ev.user_id) THEN owed ELSE owed \cup {loc[t].ev}
    /\ Goto(t, loc[t].ret)
    /\ SetLoc(t, IF loc[t].ret = "idle" THEN InitLoc
                 ELSE [loc[t] EXCEPT !.sent = Append(@, loc[t].ev), !.ov = "none",
                                     !.ev = InitLoc.ev])
    /\ UNCHANGED <<storeVars, clock, nclear, normVars, envVars>>

-----------------------------------------------------------------------------
(* read_history *)

\* rec.get("user_id") == user_id and rec.get("role") in ("user", "assistant")
Matches(line, user_id) ==
    line.kind = "rec" /\ line.user_id = user_id /\ line.role \in {"user", "assistant"}

\* the dict read_history builds from a record
Item(line) == [role |-> line.role, message |-> line.message, ts |-> line.ts]

\* deque(maxlen=limit).append(x)
DequeAppendDropNewest(items, x, maxlen) ==
    IF Len(items) >= maxlen THEN items ELSE Append(items, x)

DequeAppend(items, x, maxlen) ==
    IF maxlen = 0 THEN items
    ELSE IF Len(items) = maxlen THEN Append(Tail(items), x)
    ELSE Append(items, x)

\* the body of "for line in f" over the lines one read delivers
RECURSIVE ScanLines(_, _, _, _)
ScanLines(items, lines, user_id, limit) ==
    IF lines = <<>> THEN items
    ELSE ScanLines(IF Matches(Head(lines), user_id)
                   THEN DequeAppend(items, Item(Head(lines)), limit)
                   ELSE items,
                   Tail(lines), user_id, limit)

\* what one read delivers to a reader at byte offset pos of the file
Unread(pos) == FromOffset(log.lines, pos)

\* limits the callers pass: int(request.args.get("limit", "100")) is any integer
Limits == {-1, 0, 1, 2}

read_history_call(t) ==
    /\ pc[t] = "idle"
    /\ \E u \in Users, n \in Limits :
          BeginLogOp(t, [InitLoc EXCEPT !.op = "read_history", !.user = u, !.limit = n,
                                        !.exp = Window(log.lines, u, n)],
                     "read_history", u)
    /\ Goto(t, "rh_exists")
    /\ UNCHANGED <<storeVars, logVars, normVars, envVars>>

\* a missing file gives []; deque(maxlen=limit) raises ValueError for a
\* negative limit; else the file is opened for reading
read_history_open(t) ==
    /\ pc[t] = "rh_exists"
    /\ IF ~log.exists
       THEN /\ SetLoc(t, [loc[t] EXCEPT !.result = <<>>])
            /\ Goto(t, "rh_done")
       ELSE IF loc[t].limit < 0
       THEN /\ SetLoc(t, [loc[t] EXCEPT !.result = ValueError])
            /\ Goto(t, "rh_done")
       ELSE /\ SetLoc(t, [loc[t] EXCEPT !.items = <<>>, !.pos = 0])
            /\ Goto(t, "rh_read")
    /\ UNCHANGED <<storeVars, logVars, normVars, envVars>>

\* one read of the file object: what the file holds now from the reader's
\* position on
read_history_read(t) ==
    /\ pc[t] = "rh_read"
    /\ Unread(loc[t].pos) # <<>>
    /\ SetLoc(t, [loc[t] EXCEPT
                    !.items = ScanLines(@, Unread(loc[t].pos), loc[t].user, loc[t].limit),
                    !.pos = Bytes(log.lines)])
    /\ UNCHANGED <<pc, storeVars, logVars, normVars, envVars>>

\* a read at the end of the file delivers nothing: return list(items)
read_history_eof(t) ==
    /\ pc[t] = "rh_read"
    /\ Unread(loc[t].pos) = <<>>
    /\ Return(t, loc[t].items)
    /\ UNCHANGED <<storeVars, logVars, normVars, envVars>>

\* the return of [] for a missing file, or the ValueError leaving read_history
read_history_return(t) ==
    /\ pc[t] = "rh_done"
    /\ Return(t, loc[t].result)
    /\ UNCHANGED <<storeVars, logVars, normVars, envVars>>

-----------------------------------------------------------------------------
(* clear_history *)

\* a line is kept when json.loads rejects it or its user_id is another one
KeepParsedOnly(line, user_id) == line.kind = "rec" /\ line.user_id # user_id

Keeps(line, user_id) == line.kind = "junk" \/ line.user_id # user_id

RECURSIVE FilterKept(_, _)
FilterKept(lines, user_id) ==
    IF lines = <<>> THEN <<>>
    ELSE IF Keeps(Head(lines), user_id)
         THEN <<Head(lines)>> \o FilterKept(Tail(lines), user_id)
         ELSE FilterKept(Tail(lines), user_id)

\* f.writelines(kept) on a file opened with "w": the text goes to offset 0 of
\* the file as it is now, over what was appended since the truncation
WriteAtStart(kept, cur) == kept \o FromOffset(cur, Bytes(kept))

clear_history_call(t) ==
    /\ pc[t] = "idle"
    /\ clock + nclear < MaxLogWrites
    /\ nclear' = nclear + 1
    /\ \E u \in Users :
          /\ BeginLogOp(t, [InitLoc EXCEPT !.op = "clear_history", !.user = u,
                                           !.exp = WithoutUser(log.lines, u)],
                        "clear_history", u)
          /\ owed' = {e \in owed : e.user_id # u}
    /\ Goto(t, "cl_exists")
    /\ UNCHANGED <<storeVars, log, clock, normVars, envVars>>

\* if STRUCT_LOG.exists(): open it for reading
clear_history_open(t) ==
    /\ pc[t] = "cl_exists"
    /\ IF ~log.exists THEN Return(t, "ok")
       ELSE /\ SetLoc(t, [loc[t] EXCEPT !.kept = <<>>, !.pos = 0])
            /\ Goto(t, "cl_read")
    /\ UNCHANGED <<storeVars, logVars, normVars, envVars>>

clear_history_read(t) ==
    /\ pc[t] = "cl_read"
    /\ Unread(loc[t].pos) # <<>>
    /\ SetLoc(t, [loc[t] EXCEPT
                    !.kept = @ \o FilterKept(Unread(loc[t].pos), loc[t].user),
                    !.pos = Bytes(log.lines)])
    /\ UNCHANGED <<pc, storeVars, logVars, normVars, envVars>>

\* end of file, then open(STRUCT_LOG, "w"): the file is truncated
clear_history_truncate(t) ==
    /\ pc[t] = "cl_read"
    /\ Unread(loc[t].pos) = <<>>
    /\ log' = LogOf(<<>>)
    /\ Goto(t, "cl_write")
    /\ UNCHANGED <<loc, storeVars, clock, nclear, owed, normVars, envVars>>

\* f.writelines(kept), written when the file is closed
clear_history_write(t) ==
    /\ pc[t] = "cl_write"
    /\ log' = LogOf(WriteAtStart(loc[t].kept, log.lines))
    /\ Return(t, "ok")
    /\ UNCHANGED <<storeVars, clock, nclear, owed, normVars, envVars>>

-----------------------------------------------------------------------------
(* POST /chat.  A reply is a sequence whose elements are the characters of  *)
(* the interpolated strings and, as one element each, the literal pieces of *)
(* the f-string around them.                                               *)

MaxChats == 2

\* the "message" field of the request body; None when the field is missing
ChatMessages ==
    { None,
      <<" ">>,
      <<"m","y"," ","A"," ","="," ","1">>,
      <<"w","h","a","t","'","s"," ","m","y"," ","a","?">>,
      <<"h","i"," ">> }

NudgeReply == <<"Tell me something and I'll try to help.">>

AckReply(k, v) == <<"I'll remember your ">> \o strip(k) \o <<" is ">> \o strip(v) \o <<".">>

FoundReply(rk, v) == <<"You told me your ">> \o strip(rk) \o <<" is ">> \o v \o <<".">>

NotFoundReply(rk) ==
    <<"I don't have your ">> \o strip(rk) \o <<" yet. You can say: 'remember my ">>
        \o strip(rk) \o <<" is ...'.">>

FallbackReply(user_msg) == <<"Got it. ">> \o user_msg

\* what one provider call can give back: None (no key, or any exception),
\* an empty content, or a text
GroqOutcomes == {None, <<>>, <<"<reply>">>}
OpenAIOutcomes == {None, <<"<reply>">>}

\* Python's truth value of a string or None
Truthy(x) == x # None /\ x # <<>>

\* a or b
PyOr(a, b) == IF Truthy(a) THEN a ELSE b

llm_chat(groq, openai) == PyOr(groq, openai)

\* log_event(event): the event gets its timestamp, the append follows
EnterLogEvent(t, l, role, message, after) ==
    /\ BeginLogOp(t, [l EXCEPT !.ev = EventLine(l.user, role, message, clock + 1),
                               !.ret = after, !.result = InitLoc.result],
                  "log_event", l.user)
    /\ clock' = clock + 1
    /\ Goto(t, "log_write")

\* the requests whose user event has its timestamp: each has taken one
\* timestamp, and a second one when its reply was made
ChatsBegun ==
    (clock + Cardinality({x \in Threads : /\ loc[x].op = "chat"
                                          /\ loc[x].msg # <<>>
                                          /\ loc[x].bot = <<>>})) \div 2

\* Requests come from interchangeable users: the users are named in the order
\* in which their first logged request arrives.
KnownUsers ==
    IF \/ \E x \in Threads : loc[x].op = "chat" /\ loc[x].user = "u1" /\ loc[x].msg # <<>>
       \/ \E i \in DOMAIN log.lines : log.lines[i].kind = "rec" /\ log.lines[i].user_id = "u1"
    THEN Users ELSE {"u1"}

\* chat, were it to log the user's message under the assistant's role
chat_call_wrong_role(t) ==
    /\ pc[t] = "idle"
    /\ ChatsBegun < MaxChats
    /\ \E u \in KnownUsers, m \in inbox :
          LET user_msg == strip(OrEmpty(m))
              l == [InitLoc EXCEPT !.op = "chat", !.user = u, !.raw = m,
                                   !.msg = user_msg]
          IN  IF user_msg = <<>>
              THEN /\ SetLoc(t, [l EXCEPT !.bot = NudgeReply, !.branch = "empty"])
                   /\ Goto(t, "chat_reply")
                   /\ UNCHANGED clock
              ELSE EnterLogEvent(t, l, "assistant", user_msg, "chat_branch")
    /\ UNCHANGED <<storeVars, log, nclear, owed, normVars, envVars>>

\* chat, were it to log the user's event before it tests the message
chat_call_logs_empty(t) ==
    /\ pc[t] = "idle"
    /\ ChatsBegun < MaxChats
    /\ \E u \in KnownUsers, m \in inbox :
          LET user_msg == strip(OrEmpty(m))
              l == [InitLoc EXCEPT !.op = "chat", !.user = u, !.raw = m,
                                   !.msg = user_msg]
          IN  IF user_msg = <<>>
              THEN /\ SetLoc(t, [l EXCEPT !.bot = NudgeReply, !.branch = "empty"])
                   /\ Goto(t, "chat_reply")
                   /\ clock' = clock + 1
                   /\ log' = LogOf(Append(log.lines, EventLine(u, "user", user_msg, clock + 1)))
              ELSE /\ EnterLogEvent(t, l, "user", user_msg, "chat_branch")
                   /\ UNCHANGED log
    /\ UNCHANGED <<storeVars, nclear, owed, normVars, envVars>>

\* the request arrives: the message is stripped; an empty one is answered with
\* the nudge, any other is logged as the user's event
chat_call(t) ==
    /\ pc[t] = "idle"
    /\ ChatsBegun < MaxChats
    /\ \E u \in KnownUsers, m \in inbox :
          LET user_msg == strip(OrEmpty(m))
              l == [InitLoc EXCEPT !.op = "chat", !.user = u, !.raw = m,
                                   !.msg = user_msg]
          IN  IF user_msg = <<>>
              THEN /\ SetLoc(t, [l EXCEPT !.bot = NudgeReply, !.branch = "empty"])
                   /\ Goto(t, "chat_reply")
                   /\ UNCHANGED clock
              ELSE EnterLogEvent(t, l, "user", user_msg, "chat_branch")
    /\ UNCHANGED <<storeVars, log, nclear, owed, normVars, envVars>>

\* Utterances of the form [please] [remember [that]] my <key> is|= <value>,
\* each with the text that follows "my" and its whitespace
RememberPrefixes ==
    { <<>>,
      <<"p","l","e","a","s","e"," ">>,
      <<"r","e","m","e","m","b","e","r"," ">>,
      <<"R","e","m","e","m","b","e","r"," ","t","h","a","t"," "," ">>,
      <<"P","l","e","a","s","e"," "," ","r","e","m","e","m","b","e","r"," ","T","H","A","T"," ">> }

RememberKeys ==
    { <<"a">>,
      <<"p","a","s","s","w","o","r","d">>,
      <<"A"," ","b">>,
      <<"a"," ","i","s"," ","b">>,
      <<"i","s">>,
      <<"a","=","b">> }

RememberSeparators == {<<" ","i","s"," ">>, <<" ","="," ">>, <<" "," ","I","S"," ">>, <<" ","="," "," ">>}

RememberValues ==
    { <<"1">>,
      <<"m","y"," ","s","e","c","r","e","t">>,
      <<"b"," ","="," ","c">>,
      <<"i","s"," ","X","?">>,
      <<"w","h","a","t","'","s"," ","m","y"," ","a","?">> }

RememberForms ==
    { [text |-> p \o <<"m","y"," ">> \o k \o sep \o v, body |-> k \o sep \o v] :
        p \in RememberPrefixes, k \in RememberKeys,
        sep \in RememberSeparators, v \in RememberValues }

IntentMessages == {f.text : f \in RememberForms}

\* Remember and Recall requests for one normalized key, with two values
RecallMessages ==
    { <<"m","y"," ","A"," ","="," ","1">>,
      <<"m","y"," ","a"," ","i","s"," ","2"," ">>,
      <<"W","h","e","n"," ","i","s"," ","m","y"," ","A"," ","?">> }

\* kv = try_parse_remember(user_msg) and rk = try_parse_recall(user_msg) of the
\* messages that get this far
Classified ==
    [user_msg \in {strip(OrEmpty(m)) :
                     m \in ChatMessages \cup IntentMessages \cup RecallMessages} |->
        [kv |-> try_parse_remember(user_msg), rk |-> try_parse_recall(user_msg)]]

\* the classifier picks the branch and the branch's store call starts
chat_branch(t) ==
    /\ pc[t] = "chat_branch"
    /\ LET kv == Classified[loc[t].msg].kv
           rk == Classified[loc[t].msg].rk
       IN  IF kv # None
           THEN /\ SetLoc(t, [loc[t] EXCEPT !.branch = "remember", !.key = kv[1],
                                            !.value = kv[2],
                                            !.key_n = normalize_key(kv[1]),
                                            !.ret = "chat_ack"])
                /\ Goto(t, "rem_lock")
           ELSE IF Truthy(rk)
           THEN /\ SetLoc(t, [loc[t] EXCEPT !.branch = "recall", !.key = rk,
                                            !.key_n = normalize_key(rk),
                                            !.ret = "chat_found"])
                /\ Goto(t, "rec_lock")
           ELSE /\ SetLoc(t, [loc[t] EXCEPT !.branch = "general", !.ret = "chat_llm"])
                /\ Goto(t, "lf_lock")
    /\ UNCHANGED <<storeVars, logVars, normVars, envVars>>

\* mem.remember returned: the acknowledgement is the reply
chat_ack(t) ==
    /\ pc[t] = "chat_ack"
    /\ LET bot == AckReply(loc[t].key, loc[t].value)
       IN  EnterLogEvent(t, [loc[t] EXCEPT !.bot = bot], "assistant", bot, "chat_reply")
    /\ UNCHANGED <<storeVars, log, nclear, owed, normVars, envVars>>

\* the recall branch, were it to answer without logging its reply
chat_found_unlogged(t) ==
    /\ pc[t] = "chat_found"
    /\ LET v == loc[t].result
           bot == IF Truthy(v) THEN FoundReply(loc[t].key, v) ELSE NotFoundReply(loc[t].key)
       IN  SetLoc(t, [loc[t] EXCEPT !.bot = bot, !.result = InitLoc.result])
    /\ Goto(t, "chat_reply")
    /\ UNCHANGED <<storeVars, logVars, normVars, envVars>>

\* mem.recall returned v
chat_found(t) ==
    /\ pc[t] = "chat_found"
    /\ LET v == loc[t].result
           bot == IF Truthy(v) THEN FoundReply(loc[t].key, v) ELSE NotFoundReply(loc[t].key)
       IN  EnterLogEvent(t, [loc[t] EXCEPT !.bot = bot], "assistant", bot, "chat_reply")
    /\ UNCHANGED <<storeVars, log, nclear, owed, normVars, envVars>>

\* mem.list_facts returned; the providers are asked, the fallback stands in
\* when they give nothing
chat_llm(t) ==
    /\ pc[t] = "chat_llm"
    /\ \E groq \in GroqOutcomes, openai \in OpenAIOutcomes :
          LET answer == llm_chat(groq, openai)
              bot == PyOr(answer, FallbackReply(loc[t].msg))
          IN  EnterLogEvent(t, [loc[t] EXCEPT !.llm = answer, !.bot = bot,
                                              !.facts = InitLoc.facts],
                            "assistant", bot, "chat_reply")
    /\ UNCHANGED <<storeVars, log, nclear, owed, normVars, envVars>>

\* the response {"reply": bot} is sent
chat_reply(t) ==
    /\ pc[t] = "chat_reply"
    /\ Goto(t, "idle")
    /\ SetLoc(t, InitLoc)
    /\ UNCHANGED <<storeVars, logVars, normVars, envVars>>

-----------------------------------------------------------------------------
(* Specification of the Fact Store under concurrent callers *)

\* mem = MemoryStore(): the cache is what _load_all reads from the file
StoreInit ==
    /\ file \in {MissingFile, CorruptFile}
    /\ cache = _load_all(file)
    /\ lock = NoThread
    /\ pc = [t \in Threads |-> "idle"]
    /\ loc = [t \in Threads |-> InitLoc]
    /\ hist = <<>>
    /\ log = MissingLog
    /\ clock = 0
    /\ nclear = 0
    /\ owed = {}
    /\ nk_in = <<>>
    /\ nk_out = <<>>
    /\ inbox = ChatMessages

StoreNext ==
    \E t \in Threads :
        \/ remember_call(t)
        \/ remember_lock(t)
        \/ remember_update(t)
        \/ save_open(t)
        \/ save_write(t)
        \/ recall_call(t)
        \/ recall_lock(t)
        \/ recall_get(t)
        \/ recall_unlock(t)
        \/ list_facts_call(t)
        \/ list_facts_lock(t)
        \/ list_facts_copy(t)
        \/ list_facts_unlock(t)

SpecStore == StoreInit /\ [][StoreNext]_vars

-----------------------------------------------------------------------------
(* Specification of the Fact Store in a process that can stop and restart *)

\* the remember calls that have returned: all that updated the map, but the
\* one that is still inside _save_all
Returned ==
    IF \E t \in Threads : pc[t] \in {"save_open", "save_write"}
    THEN SubSeq(hist, 1, Len(hist) - 1)
    ELSE hist

\* The process stops, at any point, and is started again: every call in
\* progress is gone, and mem = MemoryStore() loads what the file holds. A
\* write_text that was cut short after it opened the file leaves the file
\* empty or with a piece of the text, which is no JSON document.
crash_restart ==
    /\ file' \in (IF \E t \in Threads : pc[t] = "save_write"
                  THEN {EmptyFile, CorruptFile} ELSE {file})
    /\ cache' = _load_all(file')
    /\ lock' = NoThread
    /\ pc' = [t \in Threads |-> "idle"]
    /\ loc' = [t \in Threads |-> InitLoc]
    /\ hist' = Returned
    /\ UNCHANGED <<logVars, normVars, envVars>>

CrashNext == StoreNext \/ crash_restart

SpecCrash == StoreInit /\ [][CrashNext]_vars

-----------------------------------------------------------------------------
(* Specification of the event log under concurrent callers *)

\* the log when the server starts: missing, empty, or SeedLog
SeedLog == <<EventLine("u1", "user", <<"m">>, 0), JunkLine(0, 7),
             EventLine("u1", "system", <<"m">>, 0), EventLine("u2", "assistant", <<"m">>, 0)>>

InitLogs == {<<>>, SeedLog}

LogInit ==
    /\ log \in {MissingLog} \cup {LogOf(lines) : lines \in InitLogs}
    /\ clock = 0
    /\ nclear = 0
    /\ owed = Events(log.lines)
    /\ file = MissingFile
    /\ cache = EmptyDict
    /\ lock = NoThread
    /\ hist = <<>>
    /\ pc = [t \in Threads |-> "idle"]
    /\ loc = [t \in Threads |-> InitLoc]
    /\ nk_in = <<>>
    /\ nk_out = <<>>
    /\ inbox = ChatMessages

LogNext ==
    \E t \in Threads :
        \/ log_event_call(t)
        \/ log_write(t)
        \/ read_history_call(t)
        \/ read_history_open(t)
        \/ read_history_read(t)
        \/ read_history_eof(t)
        \/ read_history_return(t)
        \/ clear_history_call(t)
        \/ clear_history_open(t)
        \/ clear_history_read(t)
        \/ clear_history_truncate(t)
        \/ clear_history_write(t)

SpecLog == LogInit /\ [][LogNext]_vars

-----------------------------------------------------------------------------
(* Specification of normalize_key as a pure function *)

NormChars == {"a", "A", "1", "_", "-", " ", "!"}

NormInputs == UNION {[1..n -> NormChars] : n \in 0..MaxKeyLen}

NormInit ==
    /\ nk_in \in NormInputs
    /\ nk_out = <<>>
    /\ inbox = ChatMessages
    /\ file = MissingFile
    /\ cache = EmptyDict
    /\ lock = NoThread
    /\ pc = [t \in Threads |-> "idle"]
    /\ loc = [t \in Threads |-> InitLoc]
    /\ hist = <<>>
    /\ log = MissingLog
    /\ clock = 0
    /\ nclear = 0
    /\ owed = {}

\* normalize_key applied to the input, then to its own result
apply_normalize_key ==
    /\ Len(nk_out) < 2
    /\ nk_out' = Append(nk_out, normalize_key(IF nk_out = <<>> THEN nk_in
                                              ELSE nk_out[Len(nk_out)]))
    /\ UNCHANGED <<pc, loc, storeVars, logVars, nk_in, envVars>>

NormNext == apply_normalize_key

SpecNorm == NormInit /\ [][NormNext]_vars

-----------------------------------------------------------------------------
(* Specification of the server: concurrent /chat requests *)

Init ==
    /\ file \in {MissingFile, CorruptFile}
    /\ cache = _load_all(file)
    /\ lock = NoThread
    /\ pc = [t \in Threads |-> "idle"]
    /\ loc = [t \in Threads |-> InitLoc]
    /\ hist = <<>>
    /\ log \in {MissingLog, LogOf(<<>>)}
    /\ clock = 0
    /\ nclear = 0
    /\ owed = {}
    /\ nk_in = <<>>
    /\ nk_out = <<>>
    /\ inbox = ChatMessages

Next ==
    \E t \in Threads :
        \/ chat_call(t)
        \/ log_write(t)
        \/ chat_branch(t)
        \/ remember_lock(t)
        \/ remember_update(t)
        \/ save_open(t)
        \/ save_write(t)
        \/ chat_ack(t)
        \/ recall_lock(t)
        \/ recall_get(t)
        \/ recall_unlock(t)
        \/ chat_found(t)
        \/ list_facts_lock(t)
        \/ list_facts_copy(t)
        \/ list_facts_unlock(t)
        \/ chat_llm(t)
        \/ chat_reply(t)

Spec == Init /\ [][Next]_vars

-----------------------------------------------------------------------------
(* Specification of one handler serving /chat requests that all carry one *)
(* utterance of the remember form                                          *)

IntentInit ==
    /\ inbox \in {{m} : m \in IntentMessages}
    /\ file = MissingFile
    /\ cache = EmptyDict
    /\ lock = NoThread
    /\ pc = [t \in Threads |-> "idle"]
    /\ loc = [t \in Threads |-> InitLoc]
    /\ hist = <<>>
    /\ log = MissingLog
    /\ clock = 0
    /\ nclear = 0
    /\ owed = {}
    /\ nk_in = <<>>
    /\ nk_out = <<>>

IntentNext ==
    \/ chat_call("t1")
    \/ log_write("t1")
    \/ chat_branch("t1")
    \/ remember_lock("t1")
    \/ remember_update("t1")
    \/ save_open("t1")
    \/ save_write("t1")
    \/ chat_ack("t1")
    \/ chat_reply("t1")

SpecIntent == IntentInit /\ [][IntentNext]_vars

-----------------------------------------------------------------------------
(* Specification of the server: concurrent Remember and Recall requests,   *)
(* over a fact file that an earlier run of the server may have written     *)

\* what an earlier run wrote when user u said "my a is 0"
SeedFacts(u) == StoreFact(EmptyDict, u, <<"a">>, <<"0">>)

RecallInit ==
    /\ \/ /\ file = MissingFile
          /\ hist = <<>>
       \/ \E u \in Users :
             /\ file = json_dumps(SeedFacts(u))
             /\ hist = << <<u, <<"a">>, <<"0">>>> >>
    /\ cache = _load_all(file)
    /\ lock = NoThread
    /\ pc = [t \in Threads |-> "idle"]
    /\ loc = [t \in Threads |-> InitLoc]
    /\ log = MissingLog
    /\ clock = 0
    /\ nclear = 0
    /\ owed = {}
    /\ nk_in = <<>>
    /\ nk_out = <<>>
    /\ inbox = RecallMessages

RecallNext ==
    \E t \in Threads :
        \/ chat_call(t)
        \/ log_write(t)
        \/ chat_branch(t)
        \/ remember_lock(t)
        \/ remember_update(t)
        \/ save_open(t)
        \/ save_write(t)
        \/ chat_ack(t)
        \/ recall_lock(t)
        \/ recall_get(t)
        \/ recall_unlock(t)
        \/ chat_found(t)
        \/ chat_reply(t)

SpecRecall == RecallInit /\ [][RecallNext]_vars

-----------------------------------------------------------------------------
(* Specification of the server: /chat, /history and /clear requests, each  *)
(* served by a thread that keeps running                                   *)

LiveInit ==
    /\ file = MissingFile
    /\ cache = _load_all(file)
    /\ lock = NoThread
    /\ pc = [t \in Threads |-> "idle"]
    /\ loc = [t \in Threads |-> InitLoc]
    /\ hist = <<>>
    /\ log = MissingLog
    /\ clock = 0
    /\ nclear = 0
    /\ owed = {}
    /\ nk_in = <<>>
    /\ nk_out = <<>>
    /\ inbox = ChatMessages \ {<<" ">>}

\* A request of the one user arrives and thread t starts to serve it: t1
\* serves /chat requests, t2 serves /chat, /history and /clear requests; a
\* /history request asks for one event or passes a negative limit, and there
\* is one /clear request.
Arrive(t) ==
    /\ \/ chat_call(t)
       \/ t = "t2" /\ read_history_call(t)
       \/ t = "t2" /\ nclear = 0 /\ clear_history_call(t)
    /\ loc'[t].user = "u1"
    /\ loc'[t].op = "read_history" => loc'[t].limit \in {-1, 1}

\* the next step of the handler that thread t runs
Handle(t) ==
    \/ log_write(t)
    \/ chat_branch(t)
    \/ remember_lock(t)
    \/ remember_update(t)
    \/ save_open(t)
    \/ save_write(t)
    \/ chat_ack(t)
    \/ recall_lock(t)
    \/ recall_get(t)
    \/ recall_unlock(t)
    \/ chat_found(t)
    \/ list_facts_lock(t)
    \/ list_facts_copy(t)
    \/ list_facts_unlock(t)
    \/ chat_llm(t)
    \/ chat_reply(t)
    \/ read_history_open(t)
    \/ read_history_read(t)
    \/ read_history_eof(t)
    \/ read_history_return(t)
    \/ clear_history_open(t)
    \/ clear_history_read(t)
    \/ clear_history_truncate(t)
    \/ clear_history_write(t)

LiveNext == \E t \in Threads : Arrive(t) \/ Handle(t)

\* where the handlers are: every step of a handler changes it
position == <<pc, [t \in Threads |-> loc[t].pos]>>

\* every thread that can take a step of its handler is scheduled again; an
\* acquire that stays possible is made
SpecLive ==
    /\ LiveInit
    /\ [][LiveNext]_vars
    /\ \A t \in Threads : WF_position(Handle(t))

-----------------------------------------------------------------------------
(* Properties of the Fact Store, checked under SpecStore *)

\* normalize_key of the keys the callers pass, tabulated
KeyTable == [k \in StoreKeys \cup {<<"a">>} |-> normalize_key(k)]

NormalizedKey(k) == KeyTable[k]

RememberPcs == {"rem_lock", "rem_update", "save_open", "save_write"}

\* the read-modify-write of the map and the flush
InCritical(t) == pc[t] \in {"rem_update", "save_open", "save_write"}

\* C1: no two remember calls are inside the read-modify-write and flush at the
\* same time, and once every remember call has returned the cache and the
\* fact file hold a value for every (user, normalized key) that was written
C1_NoLostUpdate ==
    /\ \A t1, t2 \in Threads : t1 # t2 => ~(InCritical(t1) /\ InCritical(t2))
    /\ (\A t \in Threads : pc[t] \notin RememberPcs) =>
          \A i \in 1..Len(hist) :
              LET u == hist[i][1]
                  k == NormalizedKey(hist[i][2])
              IN  /\ u \in DOMAIN cache /\ k \in DOMAIN cache[u]
                  /\ file.kind = "json"
                  /\ u \in DOMAIN file.obj /\ k \in DOMAIN file.obj[u]

\* two remember calls of one user and one normalized key contend for the lock
C1_Witness ==
    \E t1, t2 \in Threads :
        /\ pc[t1] = "save_write" /\ pc[t2] = "rem_lock"
        /\ loc[t1].user = loc[t2].user /\ loc[t1].key_n = loc[t2].key_n
        /\ Len(hist) = 1

\* the trimmed value of the most recent remember(u, k', v) of h with
\* normalize(k') = normalize(k), None when there is none
LastWrite(h, u, k) ==
    LET idx == {i \in 1..Len(h) : h[i][1] = u /\ NormalizedKey(h[i][2]) = NormalizedKey(k)}
    IN  IF idx = {} THEN None ELSE strip(h[SetMax(idx)][3])

\* C7: recall(u, k) returns the trimmed value of the most recent remember for
\* the same normalized key, None if there was none; a user's map has one
\* entry per normalized key that was written
C7_LastWriteWins ==
    /\ \A t \in Threads :
          pc[t] = "rec_unlock" => loc[t].result = LastWrite(hist, loc[t].user, loc[t].key)
    /\ \A u \in Users :
          DOMAIN CopyFacts(cache, u) =
             {NormalizedKey(hist[i][2]) : i \in {j \in 1..Len(hist) : hist[j][1] = u}}

\* a recall answers with the second of two writes to one normalized key
C7_Witness ==
    \E t \in Threads :
        /\ pc[t] = "rec_unlock"
        /\ Len(hist) = 2
        /\ hist[1][1] = loc[t].user /\ hist[2][1] = loc[t].user
        /\ hist[1][2] # hist[2][2]
        /\ NormalizedKey(hist[1][2]) = loc[t].key_n /\ NormalizedKey(hist[2][2]) = loc[t].key_n
        /\ strip(hist[1][3]) # strip(hist[2][3])
        /\ loc[t].result = strip(hist[2][3])

\* k1 and k2 differ only in letter case and in leading or trailing whitespace
SameKey(k1, k2) == strip(lower(k1)) = strip(lower(k2))

\* C8: a recall that follows remember(u, k1, v) with a key that differs from
\* k1 only in case and outer whitespace returns v, trimmed
C8_RoundTrip ==
    \A t \in Threads :
        (/\ pc[t] = "rec_unlock"
         /\ hist # <<>>
         /\ hist[Len(hist)][1] = loc[t].user
         /\ SameKey(hist[Len(hist)][2], loc[t].key))
        => loc[t].result = strip(hist[Len(hist)][3])

C8_Witness ==
    \E t \in Threads :
        /\ pc[t] = "rec_unlock"
        /\ hist # <<>>
        /\ hist[Len(hist)] = <<loc[t].user, <<"A">>, <<"y", " ">>>>
        /\ loc[t].key = <<" ", "a">>
        /\ loc[t].result = <<"y">>

\* C9: the cache update of remember(u1, k, v) leaves list_facts(u2) and
\* recall(u2, k') as they were for every other user u2, and recall(u2, k) is
\* None as long as u2 has stored nothing under that normalized key
C9_Isolation ==
    /\ [](\A u2 \in Users, k \in StoreKeys :
            (\A i \in 1..Len(hist) :
                ~(hist[i][1] = u2 /\ NormalizedKey(hist[i][2]) = NormalizedKey(k)))
            => LookupFact(cache, u2, NormalizedKey(k)) = None)
    /\ [][\A t \in Threads :
            (pc[t] = "rem_update" /\ pc'[t] # "rem_update") =>
                \A u2 \in Users \ {loc[t].user} :
                    /\ CopyFacts(cache', u2) = CopyFacts(cache, u2)
                    /\ \A k \in StoreKeys :
                          LookupFact(cache', u2, NormalizedKey(k))
                             = LookupFact(cache, u2, NormalizedKey(k))]_vars

\* u1 has stored a key that u2, who has facts of its own, does not have
C9_Witness ==
    /\ "u2" \in DOMAIN cache /\ cache["u2"] # EmptyDict
    /\ \E i \in 1..Len(hist) :
          /\ hist[i][1] = "u1"
          /\ LookupFact(cache, "u1", NormalizedKey(hist[i][2])) # None
          /\ LookupFact(cache, "u2", NormalizedKey(hist[i][2])) = None

\* C13: whenever no thread is inside a remember call, the store loaded from
\* the fact file is the whole in-memory store, and so gives the same answer
\* to every recall
C13_FileHoldsStore ==
    (\A t \in Threads : pc[t] \notin RememberPcs) =>
        /\ _load_all(file) = cache
        /\ \A u \in Users, k \in StoreKeys :
              LookupFact(_load_all(file), u, NormalizedKey(k))
                 = LookupFact(cache, u, NormalizedKey(k))

\* both users have stored facts, the last remember was of u1, and u2's fact
\* is in the file
C13_Witness ==
    /\ \A t \in Threads : pc[t] \notin RememberPcs
    /\ Len(hist) = 2 /\ hist[1][1] = "u2" /\ hist[2][1] = "u1"
    /\ file.kind = "json"
    /\ "u2" \in DOMAIN file.obj /\ file.obj["u2"] # EmptyDict

\* C14: a store constructed over a missing or unparseable fact file is empty:
\* until the first remember every recall returns None and every list_facts
\* an empty dict, and once a remember has returned the file is valid JSON
\* holding the store
C14_EmptyOnBadFile ==
    /\ hist = <<>> =>
          /\ cache = EmptyDict
          /\ \A t \in Threads :
                /\ pc[t] = "rec_unlock" => loc[t].result = None
                /\ pc[t] = "lf_unlock" => loc[t].facts = EmptyDict
    /\ (hist # <<>> /\ \A t \in Threads : pc[t] \notin RememberPcs) =>
          /\ file.kind = "json"
          /\ file.obj = cache
          /\ cache # EmptyDict

\* the store started over an unparseable file, a recall found nothing, and
\* the first remember is replacing the file
C14_Witness ==
    \E t1, t2 \in Threads :
        /\ pc[t1] = "rec_unlock" /\ loc[t1].result = None
        /\ pc[t2] = "rem_lock"
        /\ hist = <<>>
        /\ file = CorruptFile

\* C16: wherever the process stops while remember is flushing, the store a
\* restart loads from the fact file holds a value for every key written by a
\* remember call that had returned
C16_RestartKeepsFacts ==
    \A i \in 1..Len(Returned) :
        LookupFact(cache, Returned[i][1], NormalizedKey(Returned[i][2])) # None

-----------------------------------------------------------------------------
(* Properties of the event log, checked under SpecLog *)

\* read_history of thread t is about to return value, if it is about to return
ReadReturns(t, value) ==
    /\ (pc[t] = "rh_read" /\ Unread(loc[t].pos) = <<>>) => loc[t].items = value
    /\ pc[t] = "rh_done" => loc[t].result = value

\* C2: a /clear request of u that ran with no other log operation leaves the
\* log with no event of u and with every other line, in the order they had
C2_CompactionScoped ==
    [][\A t \in Threads :
          (pc[t] = "cl_write" /\ pc'[t] # "cl_write" /\ loc[t].ov = "none") =>
              /\ log'.lines = loc[t].exp
              /\ \A i \in DOMAIN log'.lines :
                    ~(log'.lines[i].kind = "rec" /\ log'.lines[i].user_id = loc[t].user)]_vars

\* a compaction on its own is about to write back an unparseable line and an
\* event of another user, having dropped events of its user
C2_Witness ==
    \E t \in Threads :
        /\ pc[t] = "cl_write" /\ loc[t].ov = "none"
        /\ \E i \in DOMAIN loc[t].kept : loc[t].kept[i].kind = "junk"
        /\ \E i \in DOMAIN loc[t].kept : loc[t].kept[i].kind = "rec"
        /\ loc[t].pos > Bytes(loc[t].kept)
        /\ loc[t].kept = loc[t].exp

\* C3: whenever no compaction is in progress, the log holds every event that
\* was in it at the start or appended since, except those of a user whose
\* history a /clear request has removed since
C3_NoForeignLoss ==
    (\A u \in Users : ~ClearRunning(u)) =>
        \A e \in owed : \E i \in DOMAIN log.lines : log.lines[i] = e

\* C4: a read_history of u during which only /clear requests of other users
\* ran returns the window of u's events
C4_AtomicForReader ==
    \A t \in Threads :
        (loc[t].ov = "clears" /\ loc[t].limit >= 0) => ReadReturns(t, loc[t].exp)

\* C5: a read_history(u, limit) with limit >= 1 that ran with no other log
\* operation returns the last min(limit, n) turns of u in log order
C5_Window ==
    \A t \in Threads :
        (loc[t].ov = "none" /\ loc[t].limit >= 1) => ReadReturns(t, loc[t].exp)

\* a window of two out of three turns, from a log that also holds an
\* unparseable line
C5_Witness ==
    \E t \in Threads :
        /\ pc[t] = "rh_read" /\ Unread(loc[t].pos) = <<>>
        /\ loc[t].ov = "none" /\ loc[t].limit = 2
        /\ Len(loc[t].items) = 2
        /\ loc[t].items[1].ts < loc[t].items[2].ts
        /\ Len(TurnsOf(log.lines, loc[t].user)) = 3
        /\ \E i \in DOMAIN log.lines : log.lines[i].kind = "junk"

-----------------------------------------------------------------------------
(* Properties of /chat, checked under Spec *)

\* the request of thread t is inside a Fact Store call or about to use what
\* the call returned, the answer generator included
PastLogging(t) ==
    /\ loc[t].op = "chat"
    /\ pc[t] \in {"rem_lock", "rem_update", "save_open", "save_write", "chat_ack",
                  "rec_lock", "rec_get", "rec_unlock", "chat_found",
                  "lf_lock", "lf_copy", "lf_unlock", "chat_llm"}

\* e is the event of the given role and message of the request of thread t
EventOf(t, e, role, message) ==
    /\ e.kind = "rec" /\ e.user_id = loc[t].user
    /\ e.role = role /\ e.message = message

\* line e1 comes before line e2 in the log
LoggedInOrder(e1, e2) ==
    \E i, j \in DOMAIN log.lines : i < j /\ log.lines[i] = e1 /\ log.lines[j] = e2

\* C6: while a request with a non-empty message is in the Fact Store or at
\* the answer generator, its user event is in the log and is the only event
\* it has appended; when it replies it has appended exactly two events, the
\* user event first and then one assistant event holding the reply, on each
\* of the three paths
C6_ChatLogsTurn ==
    \A t \in Threads :
        /\ PastLogging(t) =>
              /\ Len(loc[t].sent) = 1
              /\ EventOf(t, loc[t].sent[1], "user", loc[t].msg)
              /\ \E i \in DOMAIN log.lines : log.lines[i] = loc[t].sent[1]
        /\ (pc[t] = "chat_reply" /\ loc[t].msg # <<>>) =>
              /\ loc[t].branch \in {"remember", "recall", "general"}
              /\ Len(loc[t].sent) = 2
              /\ EventOf(t, loc[t].sent[1], "user", loc[t].msg)
              /\ EventOf(t, loc[t].sent[2], "assistant", loc[t].bot)
              /\ LoggedInOrder(loc[t].sent[1], loc[t].sent[2])

\* a recall request is about to reply while a request of the same user that
\* began later has already logged its message
C6_Witness ==
    \E t, x \in Threads :
        /\ pc[t] = "chat_reply" /\ loc[t].branch = "recall"
        /\ PastLogging(x) /\ loc[x].user = loc[t].user
        /\ LoggedInOrder(loc[t].sent[1], loc[x].sent[1])
        /\ LoggedInOrder(loc[x].sent[1], loc[t].sent[2])

\* the message of the request of thread t is empty or whitespace only
EmptyInput(l) == l.op = "chat" /\ strip(OrEmpty(l.raw)) = <<>>

\* C15: a chat request whose message is empty or whitespace only goes straight
\* to its reply, which is the nudge; it has logged nothing and called no
\* provider, and the steps of its thread leave the event log, the clock, the
\* store and the fact file as they were
C15_EmptyShortCircuit ==
    /\ [](\A t \in Threads :
            EmptyInput(loc[t]) =>
                /\ pc[t] = "chat_reply"
                /\ loc[t].bot = NudgeReply
                /\ loc[t].sent = <<>>
                /\ loc[t].llm = InitLoc.llm
                /\ loc[t].ev = InitLoc.ev)
    /\ [][\A t \in Threads :
            (pc'[t] # pc[t] /\ (EmptyInput(loc[t]) \/ EmptyInput(loc'[t]))) =>
                UNCHANGED <<log, clock, owed, cache, file, lock, hist>>]_vars

\* a whitespace-only message is being answered while the log holds an event
C15_Witness ==
    \E t \in Threads :
        /\ pc[t] = "chat_reply"
        /\ loc[t].raw = <<" ">>
        /\ loc[t].bot = NudgeReply
        /\ log.lines # <<>>

\* the reply of the recall branch for what the store holds for (u, rk)
RecallReply(h, u, rk) ==
    IF LastWrite(h, u, rk) = None THEN NotFoundReply(rk)
    ELSE FoundReply(rk, LastWrite(h, u, rk))

\* the Remember requests answered so far, as the store saw them: those in
\* hist, but the ones whose handler has not got to its acknowledgement
Answering(t) ==
    /\ loc[t].op = "chat" /\ loc[t].branch = "remember"
    /\ pc[t] \in {"log_write", "chat_reply"}

\* C17: a Recall request reads, under the lock, the trimmed value of the
\* user's latest Remember for the same normalized key, every acknowledged
\* Remember included, and answers with it in REPLY_FOUND; it answers
\* REPLY_NOT_FOUND when the user has stored nothing under that normalized
\* key, whatever other users stored
C17_RememberThenRecall ==
    /\ [](\A t \in Threads :
            /\ Answering(t) =>
                  \E i \in 1..Len(hist) :
                      hist[i] = <<loc[t].user, loc[t].key, loc[t].value>>
            /\ (loc[t].op = "chat" /\ loc[t].branch = "recall" /\ loc[t].bot # <<>>) =>
                  \E n \in 0..Len(hist) :
                      loc[t].bot = RecallReply(SubSeq(hist, 1, n), loc[t].user, loc[t].key)
            /\ (loc[t].op = "chat" /\ loc[t].branch = "recall" /\ loc[t].bot # <<>>
                  /\ LastWrite(hist, loc[t].user, loc[t].key) = None) =>
                  loc[t].bot = NotFoundReply(loc[t].key))
    /\ [][\A t \in Threads :
            /\ (pc[t] = "rec_get" /\ pc'[t] = "rec_unlock") =>
                  loc'[t].result = LastWrite(hist, loc[t].user, loc[t].key)
            /\ (pc[t] = "chat_found" /\ pc'[t] # "chat_found") =>
                  /\ loc[t].result = None => loc'[t].bot = NotFoundReply(loc[t].key)
                  /\ loc[t].result # None =>
                        loc'[t].bot = FoundReply(loc[t].key, loc[t].result)]_vars

\* a user's Recall is being answered with the value of their latest Remember
\* for the normalized key, which replaced the value of an earlier one
C17_Witness ==
    \E t \in Threads :
        /\ pc[t] = "chat_reply" /\ loc[t].branch = "recall"
        /\ loc[t].key = <<"A">>
        /\ loc[t].bot = FoundReply(loc[t].key, <<"2">>)
        /\ Len(hist) = 2
        /\ hist[1] = <<loc[t].user, <<"a">>, <<"0">>>>

\* C18: read_history(u, limit) leaves with a list of events, never with an
\* exception, for every integer limit the /history request can pass, zero and
\* negative ones included
C18_ReadNeverRaises ==
    \A t \in Threads :
        (loc[t].op = "read_history" /\ pc[t] = "rh_done") => loc[t].result # ValueError

\* the positions inside a with _LOCK block
LockPcs == {"rem_update", "save_open", "save_write", "rec_get", "rec_unlock",
            "lf_copy", "lf_unlock"}

\* C19: every /chat request gets to its reply, whatever other /chat, /history
\* and /clear requests run beside it, and it leaves the handler by sending
\* that reply and in no other way; the lock is held only inside a with block
\* and every hold ends
C19_ChatTerminates ==
    /\ \A t \in Threads : (loc[t].op = "chat") ~> (pc[t] = "chat_reply")
    /\ \A t \in Threads : (lock = t) ~> (lock # t)
    /\ [](\A t \in Threads : lock = t => pc[t] \in LockPcs)
    /\ [][\A t \in Threads :
            (loc[t].op = "chat" /\ loc'[t].op # "chat") => pc[t] = "chat_reply"]_vars

\* a /chat request waits for the lock that another /chat request holds
C19_Witness ==
    \E t1, t2 \in Threads :
        /\ loc[t1].op = "chat" /\ pc[t1] \in {"rem_lock", "rec_lock", "lf_lock"}
        /\ loc[t2].op = "chat" /\ lock = t2

\* the number of events of user u with the given role among the first n lines
CountRole(lines, n, u, role) ==
    Cardinality({i \in 1..n : /\ lines[i].kind = "rec"
                              /\ lines[i].user_id = u
                              /\ lines[i].role = role})

\* a /chat request of user u with a message is being served
InFlight(u) ==
    \E t \in Threads : loc[t].op = "chat" /\ loc[t].user = u /\ loc[t].msg # <<>>

\* C20: without compaction, every prefix of the log holds for each user at
\* least as many user events as assistant events, and when no request of the
\* user is being served the log holds as many of the one as of the other
C20_TurnsBalanced ==
    \A u \in Users :
        /\ \A n \in 0..Len(log.lines) :
              CountRole(log.lines, n, u, "user") >= CountRole(log.lines, n, u, "assistant")
        /\ ~InFlight(u) =>
              CountRole(log.lines, Len(log.lines), u, "user")
                  = CountRole(log.lines, Len(log.lines), u, "assistant")

\* two requests of one user are served at once: both user events are in the
\* log, one reply is, the other is still to be written
C20_Witness ==
    \E u \in Users :
        /\ Len(log.lines) = 3
        /\ log.lines[1].role = "user" /\ log.lines[2].role = "user"
        /\ log.lines[3].role = "assistant"
        /\ \A i \in 1..3 : log.lines[i].user_id = u
        /\ \E t \in Threads : pc[t] = "log_write" /\ loc[t].user = u

\* C11: a general-chat request whose answer generator gave no reply answers
\* with "Got it. " followed by the message exactly as the caller sent it
C11_FallbackEcho ==
    \A t \in Threads :
        (pc[t] = "chat_reply" /\ loc[t].branch = "general" /\ loc[t].llm = None)
        => loc[t].bot = <<"Got it. ">> \o loc[t].raw

-----------------------------------------------------------------------------
(* Properties of the classifier, checked under SpecIntent *)

\* a separator (whitespace, "is" or "=", whitespace) follows position i of
\* body and text remains after it: the position where that text starts, else 0
RestAfterSeparator(body, i) ==
    LET q == SkipWs(body, i + 1)
        word == IF q + 1 <= Len(body) /\ lower(SubSeq(body, q, q + 1)) = <<"i", "s">> THEN 2
                ELSE IF q <= Len(body) /\ body[q] = "=" THEN 1
                ELSE 0
        r == SkipWs(body, q + word)
    IN  IF SpaceAt(body, i + 1) /\ word > 0 /\ SpaceAt(body, q + word) /\ r <= Len(body)
        THEN r ELSE 0

\* the shortest non-empty text before a separator, and the remaining text
SplitAtFirstSeparator(body) ==
    LET i == SetMin({j \in 1..Len(body) : RestAfterSeparator(body, j) # 0})
    IN  [key |-> SubSeq(body, 1, i),
         value |-> strip(SubSeq(body, RestAfterSeparator(body, i), Len(body)))]

ExpectedIntent ==
    [m \in IntentMessages |->
        SplitAtFirstSeparator((CHOOSE f \in RememberForms : f.text = m).body)]

\* C12: a request whose message has the remember form is classified as
\* Remember and never as Recall or general chat; the store is written with
\* the shortest non-empty text before a separator as key and the remaining
\* text as value
C12_RememberFirst ==
    \A t \in Threads :
        (loc[t].op = "chat" /\ loc[t].raw \in IntentMessages) =>
            /\ loc[t].branch \in {"none", "remember"}
            /\ pc[t] \notin {"rec_lock", "rec_get", "rec_unlock", "chat_found",
                              "lf_lock", "lf_copy", "lf_unlock", "chat_llm"}
            /\ pc[t] = "chat_ack" =>
                  /\ loc[t].key = ExpectedIntent[loc[t].raw].key
                  /\ loc[t].value = ExpectedIntent[loc[t].raw].value
                  /\ hist # <<>>
                  /\ hist[Len(hist)] = <<loc[t].user, loc[t].key, loc[t].value>>
                  /\ LookupFact(cache, loc[t].user, normalize_key(loc[t].key))
                        = loc[t].value
            /\ pc[t] = "chat_reply" => loc[t].branch = "remember"

\* "my password is my secret" has been stored as password -> my secret
C12_Witness ==
    \E t \in Threads :
        /\ pc[t] = "chat_ack"
        /\ loc[t].raw = <<"m","y"," ","p","a","s","s","w","o","r","d"," ","i","s"," ",
                          "m","y"," ","s","e","c","r","e","t">>
        /\ loc[t].key = <<"p","a","s","s","w","o","r","d">>
        /\ LookupFact(cache, loc[t].user, <<"p","a","s","s","w","o","r","d">>)
              = <<"m","y"," ","s","e","c","r","e","t">>

-----------------------------------------------------------------------------
(* Properties of normalize_key, checked under SpecNorm *)

\* C10: normalize_key applied to its own result gives that result
C10_Idempotent == Len(nk_out) = 2 => nk_out[2] = nk_out[1]

====
